---- MODULE Spec2Model ----
(***************************************************************************)
(* Gamification and readiness engine of the practice tracker               *)
(* (backend/crud.py, backend/models.py, backend/database.py).              *)
(*                                                                         *)
(* The database tables are the state: users, practice_sessions,            *)
(* session_tasks, practice_tasks and badges.  Every request handler is one *)
(* action; a handler that raises leaves the database as it was, because    *)
(* get_db closes the SQLAlchemy session without committing.                *)
(*                                                                         *)
(* Dates are day numbers >= 1.  Points use exact integer arithmetic: for   *)
(* every duration in -2000..200000 and every multiplier/bonus pair the     *)
(* double-precision value int(d * m * (1 + q)) of crud.py:292 equals the   *)
(* exact product truncated toward zero.                                    *)
(***************************************************************************)
EXTENDS Integers, Sequences, FiniteSets, TLC

VARIABLES today, users, badges, sessions, links, tasks, last, arg, res

vars == <<today, users, badges, sessions, links, tasks, last, arg, res>>

dbvars == <<users, badges, sessions, links, tasks>>

-----------------------------------------------------------------------------
(* Bounds of the model                                                     *)

MaxSessions == 1
MaxDay == 3
MaxLinks == 1
MaxDate == 5
MaxStreak == 31
MaxDuration == 70
MaxRated == 2
MaxBoardSessions == 2
MaxRequests == 2

-----------------------------------------------------------------------------
(* Program constants                                                       *)

NoRating == 0
NoDate == 0
PointsPerLevel == 100
Streak3 == 3
Streak7 == 7
Streak30 == 30
FocusBonusMin == 4
MarathonMinutes == 60
PerfectFocus == 5
EarlyBirdHour == 8
NightOwlHour == 22
RatingPointsPerLevel == 2
MaxRatingPointsPerSession == 30

BadgeTypes ==
  {"first_session", "streak_3", "streak_7", "streak_30",
   "marathon", "perfect_focus", "early_bird", "night_owl"}

TaskStatus == {"not_started", "in_progress", "ready"}

-----------------------------------------------------------------------------
(* Request inputs.  Durations and minutes are positive and ratings are     *)
(* absent or in 1..5, as the clients send them; NoRating stands for None   *)
(* (the code tests ratings for truth, crud.py:287 and 603-609).  User 2    *)
(* and task 2 are ids that no row has.                                     *)

ExistingUsers == {1}
UserIds == {1, 2}
ExistingTasks == {1}
TaskIds == {1, 2}

PriorStreaks == {0, 2, 6, 29}

SessionInputs ==
  {[duration_minutes |-> 40, focus_rating |-> 5, progress_rating |-> 5,
    energy_rating |-> 5, start_hour |-> 6],
   [duration_minutes |-> 60, focus_rating |-> NoRating, progress_rating |-> NoRating,
    energy_rating |-> NoRating, start_hour |-> 23],
   [duration_minutes |-> 40, focus_rating |-> 4, progress_rating |-> 3,
    energy_rating |-> NoRating, start_hour |-> 14]}

MinutesChoices == {35}

LinkInputs == [task_id : TaskIds, minutes_spent : MinutesChoices]

RECURSIVE SeqsUpTo(_, _)
SeqsUpTo(S, n) ==
  IF n = 0 THEN {<<>>}
  ELSE LET shorter == SeqsUpTo(S, n - 1)
       IN shorter \cup {Append(q, x) : q \in {r \in shorter : Len(r) = n - 1}, x \in S}

TaskLists == SeqsUpTo(LinkInputs, MaxLinks)

SessionUpdates ==
  {[notes |-> "n"],
   [focus_rating |-> 5],
   [focus_rating |-> NoRating, progress_rating |-> 3]}

TaskUpdates == {[estimated_minutes |-> 0, status |-> "ready"]}

-----------------------------------------------------------------------------
(* Helpers                                                                 *)

Max(S) == CHOOSE x \in S : \A y \in S : y <= x

Trunc(n, d) == IF n >= 0 THEN n \div d ELSE -((-n) \div d)

NextId(table) == Max(DOMAIN table \cup {0}) + 1

-----------------------------------------------------------------------------
(* Streak, points and level (crud.py 230-308)                              *)

\* variant: a broken streak starts again from zero
update_streak_resets_to_zero(day, last_practice_date, streak_count) ==
  [streak_count |->
     IF last_practice_date = NoDate THEN 1
     ELSE IF last_practice_date = day THEN streak_count
     ELSE IF last_practice_date = day - 1 THEN streak_count + 1
     ELSE 0,
   last_practice_date |-> day]

\* variant: a last date of today counts as one more day
update_streak_counts_same_day(day, last_practice_date, streak_count) ==
  [streak_count |->
     IF last_practice_date = NoDate THEN 1
     ELSE IF last_practice_date = day \/ last_practice_date = day - 1 THEN streak_count + 1
     ELSE 1,
   last_practice_date |-> day]

\* variant: any last date from yesterday on counts as consecutive
update_streak_lenient(day, last_practice_date, streak_count) ==
  [streak_count |->
     IF last_practice_date = NoDate THEN 1
     ELSE IF last_practice_date = day THEN streak_count
     ELSE IF last_practice_date >= day - 1 THEN streak_count + 1
     ELSE 1,
   last_practice_date |-> day]

\* update_streak works on the user row; here it maps the row's two fields
\* and date.today() to their values after the call.
update_streak(day, last_practice_date, streak_count) ==
  [streak_count |->
     IF last_practice_date = NoDate THEN 1
     ELSE IF last_practice_date = day THEN streak_count
     ELSE IF last_practice_date = day - 1 THEN streak_count + 1
     ELSE 1,
   last_practice_date |-> day]

\* variant: the bonus is given on the milestone days only
multiplier_milestone_day(streak_count) ==
  IF streak_count = Streak30 THEN 20
  ELSE IF streak_count = Streak7 THEN 15
  ELSE IF streak_count = Streak3 THEN 12
  ELSE 10

\* multiplier and (1 + quality_bonus) in tenths
multiplier(streak_count) ==
  IF streak_count >= Streak30 THEN 20
  ELSE IF streak_count >= Streak7 THEN 15
  ELSE IF streak_count >= Streak3 THEN 12
  ELSE 10

quality_bonus(focus_rating) ==
  IF focus_rating # NoRating /\ focus_rating >= FocusBonusMin THEN 12 ELSE 10

\* variant: the bonus is added to the multiplier instead of compounding
calculate_points_additive(duration_minutes, focus_rating, streak_count) ==
  Trunc(duration_minutes * (multiplier(streak_count) + quality_bonus(focus_rating) - 10), 10)

calculate_points(duration_minutes, focus_rating, streak_count) ==
  Trunc(duration_minutes * multiplier(streak_count) * quality_bonus(focus_rating), 100)

\* variant: levels counted from zero
update_user_level_from_zero(total_points) == total_points \div PointsPerLevel

update_user_level(total_points) == (total_points \div PointsPerLevel) + 1

-----------------------------------------------------------------------------
(* Readiness (crud.py 567-627).  A score is the fraction <<num, den>>.     *)

RatingPoints(s) ==
  (IF s.focus_rating # NoRating THEN s.focus_rating * RatingPointsPerLevel ELSE 0)
  + (IF s.progress_rating # NoRating THEN s.progress_rating * RatingPointsPerLevel ELSE 0)
  + (IF s.energy_rating # NoRating THEN s.energy_rating * RatingPointsPerLevel ELSE 0)

\* variant: every linked session counts toward the maximum, rated or not
HasRating_always(s) == TRUE

HasRating(s) ==
  s.focus_rating # NoRating \/ s.progress_rating # NoRating \/ s.energy_rating # NoRating

\* rows of session_tasks whose task_id is tid, as positions in the table
LinksOfTask(lnks, tid) == {i \in 1..Len(lnks) : lnks[i].task_id = tid}

LinksOfSession(lnks, sid) == {i \in 1..Len(lnks) : lnks[i].session_id = sid}

RECURSIVE SumOver(_, _, _)
SumOver(I, f, acc) ==
  IF I = {} THEN acc
  ELSE LET i == CHOOSE x \in I : TRUE
       IN SumOver(I \ {i}, f, acc + f[i])

\* variant: the percentage is returned without the cap at 100
calculate_task_readiness_uncapped(task, tid, lnks, sess) ==
  IF task.estimated_minutes <= 0 THEN <<0, 1>>
  ELSE LET rows == LinksOfTask(lnks, tid)
           pts == [i \in rows |-> RatingPoints(sess[lnks[i].session_id])]
           cumulative_rating_points == SumOver(rows, pts, 0)
           rated_sessions ==
             Cardinality({i \in rows : HasRating(sess[lnks[i].session_id])})
           score == task.total_time_practiced + cumulative_rating_points
           max_score == task.estimated_minutes + rated_sessions * MaxRatingPointsPerSession
       IN IF max_score <= 0 THEN <<0, 1>>
          ELSE <<score * 100, max_score>>

\* lnks is what the query at crud.py:590 returns: the rows already flushed
calculate_task_readiness(task, tid, lnks, sess) ==
  IF task.estimated_minutes <= 0 THEN <<0, 1>>
  ELSE LET rows == LinksOfTask(lnks, tid)
           pts == [i \in rows |-> RatingPoints(sess[lnks[i].session_id])]
           cumulative_rating_points == SumOver(rows, pts, 0)
           rated_sessions ==
             Cardinality({i \in rows : HasRating(sess[lnks[i].session_id])})
           score == task.total_time_practiced + cumulative_rating_points
           max_score == task.estimated_minutes + rated_sessions * MaxRatingPointsPerSession
       IN IF max_score <= 0 THEN <<0, 1>>
          ELSE IF score >= max_score THEN <<100, 1>>
          ELSE <<score * 100, max_score>>

-----------------------------------------------------------------------------
(* Badges (crud.py 869-934).  held[b] is the number of badge rows of type  *)
(* b the user has in the table.                                            *)

\* variant: no look-up of an existing row
award_badge_unchecked(held, new_badges, badge_type) == new_badges \cup {badge_type}

\* the nested award_badge: new_badges grows unless a row of the type exists
award_badge(held, new_badges, badge_type) ==
  IF held[badge_type] = 0 THEN new_badges \cup {badge_type} ELSE new_badges

AwardIf(cond, held, new_badges, badge_type) ==
  IF cond THEN award_badge(held, new_badges, badge_type) ELSE new_badges

\* variant: the streak badges are given the day after the milestone
check_and_award_badges_day_late(held, session_count, streak_count, s) ==
  LET b1 == AwardIf(session_count = 1, held, {}, "first_session")
      b2 == AwardIf(streak_count > Streak3, held, b1, "streak_3")
      b3 == AwardIf(streak_count > Streak7, held, b2, "streak_7")
      b4 == AwardIf(streak_count > Streak30, held, b3, "streak_30")
      b5 == AwardIf(s.duration_minutes >= MarathonMinutes, held, b4, "marathon")
      b6 == AwardIf(s.focus_rating = PerfectFocus, held, b5, "perfect_focus")
      b7 == AwardIf(s.start_hour < EarlyBirdHour, held, b6, "early_bird")
      b8 == AwardIf(s.start_hour >= NightOwlHour, held, b7, "night_owl")
  IN b8

\* variant: the marathon threshold is exclusive
check_and_award_badges_over_hour(held, session_count, streak_count, s) ==
  LET b1 == AwardIf(session_count = 1, held, {}, "first_session")
      b2 == AwardIf(streak_count >= Streak3, held, b1, "streak_3")
      b3 == AwardIf(streak_count >= Streak7, held, b2, "streak_7")
      b4 == AwardIf(streak_count >= Streak30, held, b3, "streak_30")
      b5 == AwardIf(s.duration_minutes > MarathonMinutes, held, b4, "marathon")
      b6 == AwardIf(s.focus_rating = PerfectFocus, held, b5, "perfect_focus")
      b7 == AwardIf(s.start_hour < EarlyBirdHour, held, b6, "early_bird")
      b8 == AwardIf(s.start_hour >= NightOwlHour, held, b7, "night_owl")
  IN b8

\* the set new_badges at crud.py:934
check_and_award_badges(held, session_count, streak_count, s) ==
  LET b1 == AwardIf(session_count = 1, held, {}, "first_session")
      b2 == AwardIf(streak_count >= Streak3, held, b1, "streak_3")
      b3 == AwardIf(streak_count >= Streak7, held, b2, "streak_7")
      b4 == AwardIf(streak_count >= Streak30, held, b3, "streak_30")
      b5 == AwardIf(s.duration_minutes >= MarathonMinutes, held, b4, "marathon")
      b6 == AwardIf(s.focus_rating = PerfectFocus, held, b5, "perfect_focus")
      b7 == AwardIf(s.start_hour < EarlyBirdHour, held, b6, "early_bird")
      b8 == AwardIf(s.start_hour >= NightOwlHour, held, b7, "night_owl")
  IN b8

\* variant: the user's badge rows are replaced by the newly earned ones
CommitBadges_replaces(held, new_badges) ==
  [b \in BadgeTypes |-> IF b \in new_badges THEN 1 ELSE 0]

\* db.commit() at crud.py:933 inserts one row per member of new_badges
CommitBadges(held, new_badges) ==
  [b \in BadgeTypes |-> IF b \in new_badges THEN held[b] + 1 ELSE held[b]]

-----------------------------------------------------------------------------
(* State after construction                                                *)

NoBadges == [b \in BadgeTypes |-> 0]

\* A user as create_user leaves it (crud.py:136-149) when prior = 0.  For
\* prior > 0 the user has logged one unlinked session on each of the
\* `prior' days ending on day 1 and deleted every one of them: the deletions
\* returned the points and kept the streak and the badges earned.
InitialUser(prior) ==
  [streak_count |-> prior,
   total_points |-> 0,
   level |-> 1,
   last_practice_date |-> IF prior = 0 THEN NoDate ELSE 1]

InitialBadges(prior) ==
  [b \in BadgeTypes |->
     IF \/ b = "first_session" /\ prior >= 1
        \/ b = "streak_3" /\ prior >= Streak3
        \/ b = "streak_7" /\ prior >= Streak7
        \/ b = "streak_30" /\ prior >= Streak30
     THEN 1 ELSE 0]

\* a task as create_task leaves it (crud.py:486-494, models.py:243-249)
InitialTask ==
  [user_id |-> 1,
   estimated_minutes |-> 30,
   total_time_practiced |-> 0,
   practice_count |-> 0,
   status |-> "not_started",
   readiness_score |-> <<0, 1>>]

NoRequest == [op |-> "none", result |-> "ok", id |-> 0]

Init ==
  /\ today = 2
  /\ \E prior \in PriorStreaks :
       /\ users = [u \in ExistingUsers |-> InitialUser(prior)]
       /\ badges = [u \in ExistingUsers |-> InitialBadges(prior)]
  /\ sessions = <<>>
  /\ links = <<>>
  /\ tasks = [t \in ExistingTasks |-> InitialTask]
  /\ last = NoRequest
  /\ arg = <<>>
  /\ res = <<>>

-----------------------------------------------------------------------------
(* create_practice_session (crud.py 315-386), reached through              *)
(* POST /api/sessions (main.py 224-239)                                    *)

\* variant: every linked task is put in progress, whatever its status
AddPractice_any_status(task, task_data) ==
  [task EXCEPT
     !.total_time_practiced = @ + task_data.minutes_spent,
     !.practice_count = @ + 1,
     !.status = "in_progress"]

\* variant: the practice is not counted
AddPractice_without_count(task, task_data) ==
  [task EXCEPT
     !.total_time_practiced = @ + task_data.minutes_spent,
     !.status = IF @ = "not_started" THEN "in_progress" ELSE @]

\* crud.py:372-376: the task row after one link of the request
AddPractice(task, task_data) ==
  [task EXCEPT
     !.total_time_practiced = @ + task_data.minutes_spent,
     !.practice_count = @ + 1,
     !.status = IF @ = "not_started" THEN "in_progress" ELSE @]

\* The loop at crud.py:361-378 over the request's task list.  committed is
\* the session_tasks table as the queries of this request see it: the rows
\* added by db.add at line 367 are not flushed before the commit at line
\* 380, because the session factory has autoflush=False (database.py:53).
RECURSIVE UpdateTaskStats(_, _, _, _, _)
UpdateTaskStats(tks, task_list, i, committed, sess) ==
  IF i > Len(task_list) THEN tks
  ELSE LET task_data == task_list[i]
           tid == task_data.task_id
       IN IF tid \notin DOMAIN tks
          THEN UpdateTaskStats(tks, task_list, i + 1, committed, sess)
          ELSE LET t1 == AddPractice(tks[tid], task_data)
                       t2 == [t1 EXCEPT
                            !.readiness_score =
                               calculate_task_readiness(t1, tid, committed, sess)]
                   IN UpdateTaskStats([tks EXCEPT ![tid] = t2], task_list, i + 1,
                                      committed, sess)

NewLinks(sid, task_list) ==
  [i \in 1..Len(task_list) |->
     [session_id |-> sid,
      task_id |-> task_list[i].task_id,
      minutes_spent |-> task_list[i].minutes_spent]]

SessionCount(sess, uid) == Cardinality({i \in DOMAIN sess : sess[i].user_id = uid})

\* variant: the points are computed before the streak is updated
SessionPoints_before_streak(user, day, s) ==
  calculate_points(s.duration_minutes, s.focus_rating, user.streak_count)

\* crud.py:344-348: the streak is updated first, the points use the result
SessionPoints(user, day, s) ==
  calculate_points(s.duration_minutes, s.focus_rating,
                   update_streak(day, user.last_practice_date, user.streak_count).streak_count)

\* variant: the total grows by the points of the streak before the session
UserAfterSession_adds_old_streak_points(user, day, s) ==
  LET st == update_streak(day, user.last_practice_date, user.streak_count)
      total == user.total_points
                 + calculate_points(s.duration_minutes, s.focus_rating, user.streak_count)
  IN [streak_count |-> st.streak_count,
      last_practice_date |-> st.last_practice_date,
      total_points |-> total,
      level |-> update_user_level(total)]

\* the user row after crud.py:345-353
UserAfterSession(user, day, s) ==
  LET st == update_streak(day, user.last_practice_date, user.streak_count)
      total == user.total_points + SessionPoints(user, day, s)
  IN [streak_count |-> st.streak_count,
      last_practice_date |-> st.last_practice_date,
      total_points |-> total,
      level |-> update_user_level(total)]

\* the practice_sessions row after crud.py:334-349
NewSession(uid, points, s) ==
  [user_id |-> uid,
   start_hour |-> s.start_hour,
   duration_minutes |-> s.duration_minutes,
   focus_rating |-> s.focus_rating,
   progress_rating |-> s.progress_rating,
   energy_rating |-> s.energy_rating,
   points_earned |-> points]

Snapshot == [total_points |-> [u \in DOMAIN users |-> users[u].total_points],
             level |-> [u \in DOMAIN users |-> users[u].level],
             total_time_practiced |-> [t \in DOMAIN tasks |-> tasks[t].total_time_practiced],
             practice_count |-> [t \in DOMAIN tasks |-> tasks[t].practice_count]]

\* crud.py:329-331: an unknown user ends the request before anything is written
RejectSession ==
  /\ last' = [op |-> "log_session", result |-> "not_found", id |-> 0]
  /\ UNCHANGED <<today, users, badges, sessions, links, tasks, arg, res>>

\* crud.py:333-386 for a user that exists
StoreSession(uid, s, task_list) ==
  LET sid == NextId(sessions)
      user_after == UserAfterSession(users[uid], today, s)
      db_session == NewSession(uid, SessionPoints(users[uid], today, s), s)
      sess == [i \in DOMAIN sessions \cup {sid} |->
                 IF i = sid THEN db_session ELSE sessions[i]]
      new_badges == check_and_award_badges(badges[uid], SessionCount(sess, uid),
                                           user_after.streak_count, db_session)
  IN /\ sid <= MaxSessions
     /\ users' = [users EXCEPT ![uid] = user_after]
     /\ sessions' = sess
     /\ tasks' = UpdateTaskStats(tasks, task_list, 1, links, sess)
     /\ links' = links \o NewLinks(sid, task_list)
     /\ badges' = [badges EXCEPT ![uid] = CommitBadges(@, new_badges)]
     /\ last' = [op |-> "log_session", result |-> "ok", id |-> sid,
                 before |-> Snapshot]
     /\ UNCHANGED <<today, arg, res>>

\* variant: the session row is inserted before the user is looked up
create_practice_session_insert_first(uid, s, task_list) ==
  IF uid \notin DOMAIN users
  THEN /\ NextId(sessions) <= MaxSessions
       /\ sessions' = [i \in DOMAIN sessions \cup {NextId(sessions)} |->
                         IF i \in DOMAIN sessions THEN sessions[i]
                         ELSE NewSession(uid, 0, s)]
       /\ last' = [op |-> "log_session", result |-> "not_found", id |-> 0]
       /\ UNCHANGED <<today, users, badges, links, tasks, arg, res>>
  ELSE StoreSession(uid, s, task_list)

create_practice_session(uid, s, task_list) ==
  IF uid \notin DOMAIN users THEN RejectSession ELSE StoreSession(uid, s, task_list)

LogSession ==
  \E uid \in UserIds, s \in SessionInputs, task_list \in TaskLists :
    create_practice_session(uid, s, task_list)

-----------------------------------------------------------------------------
(* update_practice_session (crud.py 419-451)                               *)

Has(update_data, field) == field \in DOMAIN update_data

\* crud.py:436-437: setattr for every field the request sets
SetRatings(db_session, update_data) ==
  [db_session EXCEPT
     !.focus_rating = IF Has(update_data, "focus_rating")
                      THEN update_data.focus_rating ELSE @,
     !.progress_rating = IF Has(update_data, "progress_rating")
                         THEN update_data.progress_rating ELSE @,
     !.energy_rating = IF Has(update_data, "energy_rating")
                       THEN update_data.energy_rating ELSE @]

\* variant: a focus rating in the request counts as a change
FocusChanged_if_sent(db_session, update_data) == Has(update_data, "focus_rating")

\* crud.py:440
FocusChanged(db_session, update_data) ==
  Has(update_data, "focus_rating") /\ update_data.focus_rating # db_session.focus_rating

\* variant: the new points are added to the total, not the difference
update_practice_session_adds_new_points(sid, update_data) ==
  IF sid \notin DOMAIN sessions
  THEN /\ last' = [op |-> "update_session_ratings", result |-> "not_found", id |-> 0]
       /\ UNCHANGED <<today, users, badges, sessions, links, tasks, arg, res>>
  ELSE LET old == sessions[sid]
           rated == SetRatings(old, update_data)
           uid == old.user_id
           new_points == calculate_points(rated.duration_minutes, rated.focus_rating,
                                          users[uid].streak_count)
           total == users[uid].total_points + new_points
       IN /\ IF FocusChanged(old, update_data)
             THEN /\ sessions' = [sessions EXCEPT ![sid] =
                                    [rated EXCEPT !.points_earned = new_points]]
                  /\ users' = [users EXCEPT ![uid].total_points = total,
                                            ![uid].level = update_user_level(total)]
             ELSE /\ sessions' = [sessions EXCEPT ![sid] = rated]
                  /\ UNCHANGED users
          /\ last' = [op |-> "update_session_ratings", result |-> "ok", id |-> sid]
          /\ UNCHANGED <<today, badges, links, tasks, arg, res>>

update_practice_session(sid, update_data) ==
  IF sid \notin DOMAIN sessions
  THEN /\ last' = [op |-> "update_session_ratings", result |-> "not_found", id |-> 0]
       /\ UNCHANGED <<today, users, badges, sessions, links, tasks, arg, res>>
  ELSE LET old == sessions[sid]
           rated == SetRatings(old, update_data)
           uid == old.user_id
           new_points == calculate_points(rated.duration_minutes, rated.focus_rating,
                                          users[uid].streak_count)
           point_diff == new_points - old.points_earned
           total == users[uid].total_points + point_diff
       IN /\ IF FocusChanged(old, update_data)
             THEN /\ sessions' = [sessions EXCEPT ![sid] =
                                    [rated EXCEPT !.points_earned = new_points]]
                  /\ users' = [users EXCEPT ![uid].total_points = total,
                                            ![uid].level = update_user_level(total)]
             ELSE /\ sessions' = [sessions EXCEPT ![sid] = rated]
                  /\ UNCHANGED users
          /\ last' = [op |-> "update_session_ratings", result |-> "ok", id |-> sid]
          /\ UNCHANGED <<today, badges, links, tasks, arg, res>>

UpdateSessionRatings ==
  \E sid \in 1..MaxSessions, update_data \in SessionUpdates :
    update_practice_session(sid, update_data)

-----------------------------------------------------------------------------
(* delete_practice_session (crud.py 454-477)                               *)

\* crud.py:470-473, for the rows whose task exists
RECURSIVE SubtractTaskStats(_, _, _)
SubtractTaskStats(tks, lnks, rows) ==
  IF rows = {} THEN tks
  ELSE LET i == CHOOSE x \in rows : TRUE
           st == lnks[i]
           t1 == [tks[st.task_id] EXCEPT
                    !.total_time_practiced = Max({0, @ - st.minutes_spent}),
                    !.practice_count = Max({0, @ - 1})]
       IN SubtractTaskStats([tks EXCEPT ![st.task_id] = t1], lnks, rows \ {i})

RemoveKey(f, k) == [i \in DOMAIN f \ {k} |-> f[i]]

\* What db.delete and db.commit (crud.py:475-476) do to the rows of
\* session_tasks that belong to the session.  PracticeSession.session_tasks
\* has no delete cascade (models.py:304), so the unit of work sets the
\* rows' session_id to NULL; the column is NOT NULL (models.py:325), the
\* UPDATE fails and the request ends in an IntegrityError with nothing
\* committed.  A row whose task is missing ends the request earlier, at
\* crud.py:472, where st.task is None.
DeleteFails(sid) == LinksOfSession(links, sid) # {}

\* variant: deleting a session also takes back a day of the streak
delete_practice_session_reverts_streak(sid) ==
  IF sid \notin DOMAIN sessions
  THEN /\ last' = [op |-> "delete_session", result |-> "not_found", id |-> sid]
       /\ UNCHANGED <<today, users, badges, sessions, links, tasks, arg, res>>
  ELSE IF DeleteFails(sid)
  THEN /\ last' = [op |-> "delete_session", result |-> "error", id |-> sid]
       /\ UNCHANGED <<today, users, badges, sessions, links, tasks, arg, res>>
  ELSE LET uid == sessions[sid].user_id
           total == Max({0, users[uid].total_points - sessions[sid].points_earned})
       IN /\ users' = [users EXCEPT ![uid].total_points = total,
                                    ![uid].level = update_user_level(total),
                                    ![uid].streak_count = Max({0, @ - 1})]
          /\ tasks' = SubtractTaskStats(tasks, links, LinksOfSession(links, sid))
          /\ sessions' = RemoveKey(sessions, sid)
          /\ last' = [op |-> "delete_session", result |-> "ok", id |-> sid]
          /\ UNCHANGED <<today, badges, links, arg, res>>

delete_practice_session(sid) ==
  IF sid \notin DOMAIN sessions
  THEN /\ last' = [op |-> "delete_session", result |-> "not_found", id |-> sid]
       /\ UNCHANGED <<today, users, badges, sessions, links, tasks, arg, res>>
  ELSE IF DeleteFails(sid)
  THEN /\ last' = [op |-> "delete_session", result |-> "error", id |-> sid]
       /\ UNCHANGED <<today, users, badges, sessions, links, tasks, arg, res>>
  ELSE LET uid == sessions[sid].user_id
           total == Max({0, users[uid].total_points - sessions[sid].points_earned})
       IN /\ users' = [users EXCEPT ![uid].total_points = total,
                                    ![uid].level = update_user_level(total)]
          /\ tasks' = SubtractTaskStats(tasks, links, LinksOfSession(links, sid))
          /\ sessions' = RemoveKey(sessions, sid)
          /\ last' = [op |-> "delete_session", result |-> "ok", id |-> sid]
          /\ UNCHANGED <<today, badges, links, arg, res>>

DeleteSession == \E sid \in 1..MaxSessions : delete_practice_session(sid)

-----------------------------------------------------------------------------
(* Tasks: update_task (crud.py 534-550), get_user_tasks (crud.py 506-531)  *)

update_task(tid, update_data) ==
  IF tid \notin DOMAIN tasks
  THEN /\ last' = [op |-> "update_task", result |-> "not_found", id |-> 0]
       /\ UNCHANGED <<today, users, badges, sessions, links, tasks, arg, res>>
  ELSE /\ tasks' = [tasks EXCEPT
            ![tid].estimated_minutes = IF Has(update_data, "estimated_minutes")
                                       THEN update_data.estimated_minutes ELSE @,
            ![tid].status = IF Has(update_data, "status") THEN update_data.status ELSE @]
       /\ last' = [op |-> "update_task", result |-> "ok", id |-> 0]
       /\ UNCHANGED <<today, users, badges, sessions, links, arg, res>>

UpdateTask == \E tid \in TaskIds, update_data \in TaskUpdates : update_task(tid, update_data)

\* variant: a task whose recomputed score is 100 is marked ready
get_user_tasks_marks_ready(uid) ==
  /\ tasks' = [t \in DOMAIN tasks |->
                 IF tasks[t].user_id = uid
                 THEN LET score == calculate_task_readiness(tasks[t], t, links, sessions)
                      IN [tasks[t] EXCEPT
                            !.readiness_score = score,
                            !.status = IF score = <<100, 1>> THEN "ready" ELSE @]
                 ELSE tasks[t]]
  /\ last' = [op |-> "get_user_tasks", result |-> "ok", id |-> 0]
  /\ UNCHANGED <<today, users, badges, sessions, links, arg, res>>

get_user_tasks(uid) ==
  /\ tasks' = [t \in DOMAIN tasks |->
                 IF tasks[t].user_id = uid
                 THEN [tasks[t] EXCEPT !.readiness_score =
                         calculate_task_readiness(tasks[t], t, links, sessions)]
                 ELSE tasks[t]]
  /\ last' = [op |-> "get_user_tasks", result |-> "ok", id |-> 0]
  /\ UNCHANGED <<today, users, badges, sessions, links, arg, res>>

ListTasks == \E uid \in UserIds : get_user_tasks(uid)

-----------------------------------------------------------------------------
(* The server's clock: date.today() moves to the next day                  *)

AdvanceDay ==
  /\ today < MaxDay
  /\ today' = today + 1
  /\ last' = [op |-> "advance_day", result |-> "ok", id |-> 0]
  /\ UNCHANGED <<users, badges, sessions, links, tasks, arg, res>>

Next ==
  \/ LogSession
  \/ UpdateSessionRatings
  \/ DeleteSession
  \/ UpdateTask
  \/ ListTasks
  \/ AdvanceDay

Spec == Init /\ [][Next]_vars

-----------------------------------------------------------------------------
(* The pure functions on bounded inputs                                    *)

IdleDatabase ==
  /\ today = 2
  /\ users = [u \in ExistingUsers |-> InitialUser(0)]
  /\ badges = [u \in ExistingUsers |-> NoBadges]
  /\ sessions = <<>>
  /\ links = <<>>
  /\ tasks = [t \in ExistingTasks |-> InitialTask]
  /\ last = NoRequest

StreakInputs ==
  [today : 1..MaxDate, last_practice_date : 0..MaxDate, streak_count : 0..MaxStreak]

InitStreak == IdleDatabase /\ arg \in StreakInputs /\ res = <<>>

ApplyStreak ==
  /\ res = <<>>
  /\ res' = update_streak(arg.today, arg.last_practice_date, arg.streak_count)
  /\ UNCHANGED <<today, users, badges, sessions, links, tasks, last, arg>>

NextStreak == ApplyStreak

SpecStreak == InitStreak /\ [][NextStreak]_vars

PointsInputs ==
  [duration_minutes : 1..MaxDuration, focus_rating : 0..5, streak_count : 0..MaxStreak]

InitPoints == IdleDatabase /\ arg \in PointsInputs /\ res = <<>>

ApplyPoints ==
  /\ res = <<>>
  /\ res' = <<calculate_points(arg.duration_minutes, arg.focus_rating, arg.streak_count)>>
  /\ UNCHANGED <<today, users, badges, sessions, links, tasks, last, arg>>

NextPoints == ApplyPoints

SpecPoints == InitPoints /\ [][NextPoints]_vars

\* a task row and the rated sessions linked to it, one link per session
EstimateChoices == {0 - 30, 0, 30, 200}

TimeChoices == {0, 35, 70, 300}

RatingChoices == {NoRating, 1, 5}

RatingTriples == [focus_rating : RatingChoices, progress_rating : RatingChoices,
                  energy_rating : RatingChoices]

ReadinessInputs ==
  [estimated_minutes : EstimateChoices, total_time_practiced : TimeChoices,
   ratings : SeqsUpTo(RatingTriples, MaxRated)]

InitReadiness == IdleDatabase /\ arg \in ReadinessInputs /\ res = <<>>

ApplyReadiness ==
  /\ res = <<>>
  /\ LET task == [InitialTask EXCEPT !.estimated_minutes = arg.estimated_minutes,
                                     !.total_time_practiced = arg.total_time_practiced]
         lnks == [i \in 1..Len(arg.ratings) |->
                    [session_id |-> i, task_id |-> 1, minutes_spent |-> 35]]
     IN res' = <<calculate_task_readiness(task, 1, lnks, arg.ratings)>>
  /\ UNCHANGED <<today, users, badges, sessions, links, tasks, last, arg>>

NextReadiness == ApplyReadiness

SpecReadiness == InitReadiness /\ [][NextReadiness]_vars

\* A session that is re-rated after the user's streak has moved on.  The
\* session was logged on day 1 when the streak stood at arg.logged_streak;
\* since then the user has logged and deleted unlinked sessions, which left
\* the streak at any value and returned their points.
InitRerate ==
  /\ today = 2
  /\ \E logged \in 1..MaxStreak, current \in 1..MaxStreak, s \in SessionInputs :
       LET points == calculate_points(s.duration_minutes, s.focus_rating, logged)
       IN /\ arg = [logged_streak |-> logged]
          /\ sessions = <<NewSession(1, points, s)>>
          /\ users = [u \in ExistingUsers |->
                        [streak_count |-> current,
                         total_points |-> points,
                         level |-> update_user_level(points),
                         last_practice_date |-> 2]]
  /\ badges = [u \in ExistingUsers |-> InitialBadges(1)]
  /\ links = <<>>
  /\ tasks = [t \in ExistingTasks |-> InitialTask]
  /\ last = NoRequest
  /\ res = <<>>

NextRerate == UpdateSessionRatings

SpecRerate == InitRerate /\ [][NextRerate]_vars

-----------------------------------------------------------------------------
(* get_weekly_leaderboard (crud.py 807-862), reached through               *)
(* GET /api/ensembles/{id}/leaderboard (main.py 510-521).  A date is a day *)
(* number, day 0 being a Monday; a start_time is a number of hours since   *)
(* day 0, 00:00.                                                           *)

HoursPerDay == 24
DaysPerWeek == 7

\* date.weekday(): Monday is 0
weekday(day) == day % DaysPerWeek

\* func.date(start_time): the calendar date of a timestamp
date_of(start_time) == start_time \div HoursPerDay

week_start_of(day) == day - weekday(day)

week_end_of(day) == week_start_of(day) + (DaysPerWeek - 1)

\* the rows of a set of ids in ascending id order, as the table scan gives them
RECURSIVE Ascending(_)
Ascending(S) ==
  IF S = {} THEN <<>>
  ELSE LET m == CHOOSE x \in S : \A y \in S : x <= y
       IN <<m>> \o Ascending(S \ {m})

get_ensemble_members(usrs, ensemble_id) ==
  Ascending({u \in DOMAIN usrs : usrs[u].ensemble_id = ensemble_id})

\* variant: the timestamp itself is compared with the week's last day
InWindow_by_timestamp(start_time, week_start, week_end) ==
  /\ start_time >= week_start * HoursPerDay
  /\ start_time <= week_end * HoursPerDay

\* the filter at crud.py:824-825 and 833-834
InWindow(start_time, week_start, week_end) ==
  /\ date_of(start_time) >= week_start
  /\ date_of(start_time) <= week_end

WeekSessions(sess, uid, week_start, week_end) ==
  {i \in DOMAIN sess :
     sess[i].user_id = uid /\ InWindow(sess[i].start_time, week_start, week_end)}

\* func.sum(...).scalar() or 0
WeeklyMinutes(sess, rows) == SumOver(rows, [i \in rows |-> sess[i].duration_minutes], 0)

WeeklyPoints(sess, rows) == SumOver(rows, [i \in rows |-> sess[i].points_earned], 0)

\* variant: an entry goes before the entries that have the same minutes
InsertEntry_before_equal(sorted, e) ==
  LET k == Cardinality({j \in 1..Len(sorted) : sorted[j].weekly_minutes > e.weekly_minutes})
  IN SubSeq(sorted, 1, k) \o <<e>> \o SubSeq(sorted, k + 1, Len(sorted))

\* list.sort(key=weekly_minutes, reverse=True) is stable: an entry comes
\* after every earlier entry that has at least its minutes
InsertEntry(sorted, e) ==
  LET k == Cardinality({j \in 1..Len(sorted) : sorted[j].weekly_minutes >= e.weekly_minutes})
  IN SubSeq(sorted, 1, k) \o <<e>> \o SubSeq(sorted, k + 1, Len(sorted))

RECURSIVE SortEntries(_, _, _)
SortEntries(entries, i, sorted) ==
  IF i > Len(entries) THEN sorted
  ELSE SortEntries(entries, i + 1, InsertEntry(sorted, entries[i]))

get_weekly_leaderboard(day, usrs, sess, ensemble_id) ==
  LET week_start == week_start_of(day)
      week_end == week_end_of(day)
      members == get_ensemble_members(usrs, ensemble_id)
      entries == [i \in 1..Len(members) |->
                    LET rows == WeekSessions(sess, members[i], week_start, week_end)
                    IN [user |-> members[i],
                        weekly_minutes |-> WeeklyMinutes(sess, rows),
                        weekly_points |-> WeeklyPoints(sess, rows)]]
      sorted == SortEntries(entries, 1, <<>>)
  IN [entries |-> [i \in 1..Len(sorted) |->
                     [rank |-> i,
                      user |-> sorted[i].user,
                      weekly_minutes |-> sorted[i].weekly_minutes,
                      weekly_points |-> sorted[i].weekly_points]],
      period_start |-> week_start,
      period_end |-> week_end]

\* Snapshots for the leaderboard.  Users 1, 2 and 3 are members of
\* ensemble 1, user 4 of ensemble 2.  Every session was logged on the
\* server's day `today', the first of its user's streak, with focus 5 and a
\* start_time of the client's choosing: the last and first hour of the
\* Sunday and Monday around the week of days 7..13.
BoardUsers == {1, 2, 3, 4}

EnsembleOf(u) == IF u = 4 THEN 2 ELSE 1

BoardDays == {7, 13}

BoardStartTimes == {6 * HoursPerDay + 23, 7 * HoursPerDay, 13 * HoursPerDay + 23,
                    14 * HoursPerDay}

BoardDurations == {30, 45}

BoardSession(uid, start_time, duration) ==
  [user_id |-> uid,
   start_time |-> start_time,
   start_hour |-> start_time % HoursPerDay,
   duration_minutes |-> duration,
   focus_rating |-> PerfectFocus,
   progress_rating |-> NoRating,
   energy_rating |-> NoRating,
   points_earned |-> calculate_points(duration, PerfectFocus, 1)]

BoardSessions ==
  {BoardSession(u, t, d) : u \in BoardUsers, t \in BoardStartTimes, d \in BoardDurations}

BoardUser(u, sess, day) ==
  LET rows == {i \in DOMAIN sess : sess[i].user_id = u}
      total == WeeklyPoints(sess, rows)
  IN [streak_count |-> IF rows = {} THEN 0 ELSE 1,
      total_points |-> total,
      level |-> update_user_level(total),
      last_practice_date |-> IF rows = {} THEN NoDate ELSE day,
      ensemble_id |-> EnsembleOf(u)]

BoardBadges(u, sess) ==
  LET rows == {i \in DOMAIN sess : sess[i].user_id = u}
  IN [b \in BadgeTypes |->
        IF \/ b \in {"first_session", "perfect_focus"} /\ rows # {}
           \/ b = "early_bird" /\ \E i \in rows : sess[i].start_hour < EarlyBirdHour
           \/ b = "night_owl" /\ \E i \in rows : sess[i].start_hour >= NightOwlHour
        THEN 1 ELSE 0]

InitBoard ==
  /\ today \in BoardDays
  /\ sessions \in SeqsUpTo(BoardSessions, MaxBoardSessions)
  /\ users = [u \in BoardUsers |-> BoardUser(u, sessions, today)]
  /\ badges = [u \in BoardUsers |-> BoardBadges(u, sessions)]
  /\ links = <<>>
  /\ tasks = [t \in ExistingTasks |-> InitialTask]
  /\ last = NoRequest
  /\ arg \in [ensemble_id : {1, 2}]
  /\ res = <<>>

\* variant: the request also stores each member's weekly points as the total
ApplyLeaderboard_stores_points ==
  /\ res = <<>>
  /\ res' = get_weekly_leaderboard(today, users, sessions, arg.ensemble_id)
  /\ users' = [u \in DOMAIN users |->
                 IF \E i \in DOMAIN res'.entries : res'.entries[i].user = u
                 THEN LET e == res'.entries[CHOOSE i \in DOMAIN res'.entries :
                                               res'.entries[i].user = u]
                      IN [users[u] EXCEPT !.total_points = e.weekly_points,
                                          !.level = update_user_level(e.weekly_points)]
                 ELSE users[u]]
  /\ UNCHANGED <<today, badges, sessions, links, tasks, last, arg>>

ApplyLeaderboard ==
  /\ res = <<>>
  /\ res' = get_weekly_leaderboard(today, users, sessions, arg.ensemble_id)
  /\ UNCHANGED <<today, users, badges, sessions, links, tasks, last, arg>>

NextBoard == ApplyLeaderboard

SpecBoard == InitBoard /\ [][NextBoard]_vars

-----------------------------------------------------------------------------
(* create_practice_session step by step.  Each request has its own ORM     *)
(* session (database.py:87); arg[p] is request p: its position, its        *)
(* inputs and the user row it loaded.  A step ends at a commit or at a     *)
(* read of the database, and the steps of different requests interleave    *)
(* (the endpoints are plain functions, run on a thread pool).              *)

Requests == 1..MaxRequests

Idle == [pc |-> "idle"]

\* crud.py:329-331: the user row is loaded into the request's session
ReadUser(p, uid, s, task_list) ==
  /\ arg[p].pc = "idle"
  /\ IF uid \notin DOMAIN users
     THEN /\ arg' = [arg EXCEPT ![p] = [pc |-> "done", uid |-> uid]]
          /\ last' = [op |-> "log_session", result |-> "not_found", id |-> 0]
     ELSE /\ arg' = [arg EXCEPT ![p] =
                       [pc |-> "read", uid |-> uid, s |-> s, task_list |-> task_list,
                        user |-> users[uid]]]
          /\ UNCHANGED last
  /\ UNCHANGED <<today, users, badges, sessions, links, tasks, res>>

\* the UPDATE of the unit of work sets the attributes whose value differs
\* from the loaded one
WriteChanged(row, loaded, after) ==
  [f \in DOMAIN row |-> IF after[f] # loaded[f] THEN after[f] ELSE row[f]]

\* variant: the streak and the points are worked out from the row as it is
\* in the database at the time of the write
CommitSession_rereads_user(p) ==
  /\ arg[p].pc = "read"
  /\ LET r == arg[p]
         sid == NextId(sessions)
         current == users[r.uid]
         db_session == NewSession(r.uid, SessionPoints(current, today, r.s), r.s)
     IN /\ users' = [users EXCEPT ![r.uid] = UserAfterSession(current, today, r.s)]
        /\ sessions' = [i \in DOMAIN sessions \cup {sid} |->
                          IF i = sid THEN db_session ELSE sessions[i]]
        /\ arg' = [arg EXCEPT ![p] = [r EXCEPT !.pc = "links"] @@ [sid |-> sid]]
  /\ UNCHANGED <<today, badges, links, tasks, last, res>>

\* crud.py:333-357: streak, points and level from the loaded row, the
\* session row, and the first commit
CommitSession(p) ==
  /\ arg[p].pc = "read"
  /\ LET r == arg[p]
         sid == NextId(sessions)
         db_session == NewSession(r.uid, SessionPoints(r.user, today, r.s), r.s)
     IN /\ users' = [users EXCEPT ![r.uid] =
                       WriteChanged(@, r.user, UserAfterSession(r.user, today, r.s))]
        /\ sessions' = [i \in DOMAIN sessions \cup {sid} |->
                          IF i = sid THEN db_session ELSE sessions[i]]
        /\ arg' = [arg EXCEPT ![p] = [r EXCEPT !.pc = "links"] @@ [sid |-> sid]]
  /\ UNCHANGED <<today, badges, links, tasks, last, res>>

\* crud.py:360-380: the links, the task statistics and the second commit
CommitLinks(p) ==
  /\ arg[p].pc = "links"
  /\ tasks' = UpdateTaskStats(tasks, arg[p].task_list, 1, links, sessions)
  /\ links' = links \o NewLinks(arg[p].sid, arg[p].task_list)
  /\ arg' = [arg EXCEPT ![p].pc = "badges"]
  /\ UNCHANGED <<today, users, badges, sessions, last, res>>

\* crud.py:903-931: the queries of check_and_award_badges; the user row was
\* expired by the commits and is read again
EvaluateBadges(p) ==
  /\ arg[p].pc = "badges"
  /\ LET r == arg[p]
         new_badges == check_and_award_badges(badges[r.uid], SessionCount(sessions, r.uid),
                                              users[r.uid].streak_count, sessions[r.sid])
     IN arg' = [arg EXCEPT ![p] = [r EXCEPT !.pc = "grant"] @@ [new_badges |-> new_badges]]
  /\ UNCHANGED <<today, users, badges, sessions, links, tasks, last, res>>

\* crud.py:933: the third commit inserts the badge rows
GrantBadges(p) ==
  /\ arg[p].pc = "grant"
  /\ badges' = [badges EXCEPT ![arg[p].uid] = CommitBadges(@, arg[p].new_badges)]
  /\ arg' = [arg EXCEPT ![p].pc = "done"]
  /\ last' = [op |-> "log_session", result |-> "ok", id |-> arg[p].sid]
  /\ UNCHANGED <<today, users, sessions, links, tasks, res>>

InFlight == {"read", "links", "badges", "grant"}

\* variant: the crash also takes back what the request's first commit wrote
Crash_undoes_first_commit(p) ==
  /\ arg[p].pc \in InFlight
  /\ arg' = [arg EXCEPT ![p].pc = "crashed"]
  /\ last' = [op |-> "crash", result |-> "error", id |-> p]
  /\ IF arg[p].pc = "read"
     THEN UNCHANGED <<users, sessions>>
     ELSE /\ users' = [users EXCEPT ![arg[p].uid] = arg[p].user]
          /\ sessions' = RemoveKey(sessions, arg[p].sid)
  /\ UNCHANGED <<today, badges, links, tasks, res>>

\* The server process dies, or the request ends in an exception, while
\* the request is under way: db.close() (database.py:89) drops what is
\* pending, and what was committed stays.
Crash(p) ==
  /\ arg[p].pc \in InFlight
  /\ arg' = [arg EXCEPT ![p].pc = "crashed"]
  /\ last' = [op |-> "crash", result |-> "error", id |-> p]
  /\ UNCHANGED <<today, users, badges, sessions, links, tasks, res>>

InitSteps ==
  /\ today = 2
  /\ \E prior \in PriorStreaks :
       /\ users = [u \in ExistingUsers |-> InitialUser(prior)]
       /\ badges = [u \in ExistingUsers |-> InitialBadges(prior)]
  /\ sessions = <<>>
  /\ links = <<>>
  /\ tasks = [t \in ExistingTasks |-> InitialTask]
  /\ last = NoRequest
  /\ arg = [p \in Requests |-> Idle]
  /\ res = <<>>

StartLog(p) ==
  \E uid \in UserIds, s \in SessionInputs, task_list \in TaskLists :
    ReadUser(p, uid, s, task_list)

\* one request at a time, which may crash
NextCrash ==
  \/ StartLog(1)
  \/ CommitSession(1)
  \/ CommitLinks(1)
  \/ EvaluateBadges(1)
  \/ GrantBadges(1)
  \/ Crash(1)

SpecCrash == InitSteps /\ [][NextCrash]_vars

\* a request of the race: a session of an existing user without task links
StartRace(p) ==
  \E uid \in ExistingUsers, s \in SessionInputs : ReadUser(p, uid, s, <<>>)

\* concurrent requests
NextRace ==
  \E p \in Requests :
    \/ StartRace(p)
    \/ CommitSession(p)
    \/ CommitLinks(p)
    \/ EvaluateBadges(p)
    \/ GrantBadges(p)

SpecRace == InitSteps /\ [][NextRace]_vars

-----------------------------------------------------------------------------
(* Properties                                                              *)

LoggedOk == last.op = "log_session" /\ last.result = "ok"

\* C1: every user's level is floor(total_points / 100) + 1, with
\* total_points >= 0 and level >= 1, whatever sessions were logged, re-rated
\* or deleted.
LevelMatchesPoints ==
  \A u \in DOMAIN users :
    /\ users[u].total_points >= 0
    /\ users[u].level >= 1
    /\ users[u].level * PointsPerLevel <= users[u].total_points + PointsPerLevel
    /\ users[u].total_points < users[u].level * PointsPerLevel

\* a re-rating has just moved a user's points past a level boundary's worth
LevelMatchesPointsWitness ==
  /\ last.op = "update_session_ratings"
  /\ last.result = "ok"
  /\ users[1].total_points = 144
  /\ users[1].level = 2

\* C2: update_streak gives 1 for an absent last date, the same streak for
\* last date = today, streak + 1 for last date = yesterday, 1 for any other
\* last date (older, or in the future), and always sets the last date to
\* today.
StreakRule ==
  res # <<>> =>
    LET t == arg.today
        l == arg.last_practice_date
        c == arg.streak_count
    IN /\ l = NoDate => res.streak_count = 1
       /\ (l # NoDate /\ l = t) => res.streak_count = c
       /\ (l # NoDate /\ l = t - 1) => res.streak_count = c + 1
       /\ (l # NoDate /\ (l < t - 1 \/ l > t)) => res.streak_count = 1
       /\ res.last_practice_date = t

\* a last date in the future resets a running streak
StreakRuleWitness ==
  /\ res # <<>>
  /\ arg.last_practice_date > arg.today
  /\ arg.streak_count = 5
  /\ res.streak_count = 1

\* the claimed multiplier and bonus, in tenths
ClaimedMultiplier(streak) ==
  IF streak >= 30 THEN 20 ELSE IF streak >= 7 THEN 15 ELSE IF streak >= 3 THEN 12 ELSE 10

ClaimedBonus(focus) == IF focus \in 4..5 THEN 12 ELSE 10

\* C3: calculate_points is floor(duration * m * (1 + b)): the largest
\* integer not above the product, so never rounded up; 40 minutes at streak
\* 3 with focus 5 gives 57.
PointsFormula ==
  res # <<>> =>
    LET product100 == arg.duration_minutes * ClaimedMultiplier(arg.streak_count)
                        * ClaimedBonus(arg.focus_rating)
    IN /\ res[1] * 100 <= product100
       /\ product100 < (res[1] + 1) * 100

PointsFormulaWitness ==
  /\ res = <<57>>
  /\ arg = [duration_minutes |-> 40, focus_rating |-> 5, streak_count |-> 3]

\* C4: log_session for a user that does not exist fails, and nothing in
\* the database changes: no session, no link, no user, task or badge row.
UnknownUserChangesNothing ==
  [][(\E uid \in UserIds \ DOMAIN users, s \in SessionInputs, task_list \in TaskLists :
        create_practice_session(uid, s, task_list))
     => (last'.result = "not_found" /\ UNCHANGED dbvars)]_vars

\* a rejected request on a database that has seen another session before
UnknownUserWitness ==
  /\ last.op = "log_session"
  /\ last.result = "not_found"
  /\ Len(links) = 1
  /\ users[1].total_points = 40

MissingTask(task_list) == \E i \in 1..Len(task_list) : task_list[i].task_id \notin DOMAIN tasks

\* C5: log_session with a link to a task that does not exist ends in
\* NotFound, and nothing in the database has changed.
MissingTaskChangesNothing ==
  [][(\E uid \in DOMAIN users, s \in SessionInputs, task_list \in TaskLists :
        MissingTask(task_list) /\ create_practice_session(uid, s, task_list))
     => (last'.result = "not_found" /\ UNCHANGED dbvars)]_vars

ClaimedPoints(duration, focus, streak) ==
  (duration * ClaimedMultiplier(streak) * ClaimedBonus(focus)) \div 100

\* C6: a logged session earns the points of the streak as this session
\* left it; the points are added to the total and the level follows the
\* new total.
PointsUseUpdatedStreak ==
  [][(last'.op = "log_session" /\ last'.result = "ok") =>
       LET s == sessions'[last'.id]
           u == s.user_id
       IN /\ s.points_earned =
               ClaimedPoints(s.duration_minutes, s.focus_rating, users'[u].streak_count)
          /\ users'[u].total_points = users[u].total_points + s.points_earned
          /\ users'[u].level = (users'[u].total_points \div 100) + 1]_vars

\* streak 2 and last practice yesterday: today's 40 minutes at focus 5 earn 57
PointsUseUpdatedStreakWitness ==
  /\ LoggedOk
  /\ users[1].streak_count = 3
  /\ sessions[last.id].duration_minutes = 40
  /\ sessions[last.id].focus_rating = 5
  /\ sessions[last.id].points_earned = 57

Floor0(n) == IF n < 0 THEN 0 ELSE n

MinutesOf(lnks, rows) == SumOver(rows, [i \in rows |-> lnks[i].minutes_spent], 0)

\* C7: delete_session takes the session's points from the user and each
\* link's minutes and one practice from the link's task, floored at zero;
\* deleting the session that was just logged restores total_points, level
\* and the tasks' total_time_practiced and practice_count.
DeleteReversesSession ==
  [][(last'.op = "delete_session" /\ last'.id \in DOMAIN sessions) =>
       LET sid == last'.id
           u == sessions[sid].user_id
       IN /\ sid \notin DOMAIN sessions'
          /\ users'[u].total_points =
               Floor0(users[u].total_points - sessions[sid].points_earned)
          /\ \A t \in DOMAIN tasks :
               LET rows == LinksOfSession(links, sid) \cap LinksOfTask(links, t)
               IN /\ tasks'[t].total_time_practiced =
                       Floor0(tasks[t].total_time_practiced - MinutesOf(links, rows))
                  /\ tasks'[t].practice_count =
                       Floor0(tasks[t].practice_count - Cardinality(rows))
          /\ (LoggedOk /\ last.id = sid) =>
               /\ users'[u].total_points = last.before.total_points[u]
               /\ users'[u].level = last.before.level[u]
               /\ \A t \in DOMAIN tasks :
                    /\ tasks'[t].total_time_practiced = last.before.total_time_practiced[t]
                    /\ tasks'[t].practice_count = last.before.practice_count[t]]_vars

\* C8: a user never has two badge rows of one type, and evaluating the
\* badges of the session just logged once more grants nothing.
OneGrantPerBadge ==
  /\ \A u \in DOMAIN badges : \A b \in BadgeTypes : badges[u][b] <= 1
  /\ LoggedOk =>
       LET s == sessions[last.id]
           u == s.user_id
       IN check_and_award_badges(badges[u], SessionCount(sessions, u),
                                 users[u].streak_count, s) = {}

\* the second day's session is again the user's only one: the first was
\* deleted, first_session is already held
OneGrantPerBadgeWitness ==
  /\ LoggedOk
  /\ today = 3
  /\ users[1].streak_count = 2
  /\ SessionCount(sessions, 1) = 1
  /\ badges[1]["first_session"] = 1

\* the catalog's triggers as the claim states them
Triggered(session_count, streak, s) ==
  {b \in BadgeTypes :
     \/ b = "first_session" /\ session_count = 1
     \/ b = "streak_3" /\ streak >= 3
     \/ b = "streak_7" /\ streak >= 7
     \/ b = "streak_30" /\ streak >= 30
     \/ b = "marathon" /\ s.duration_minutes >= 60
     \/ b = "perfect_focus" /\ s.focus_rating = 5
     \/ b = "early_bird" /\ s.start_hour < 8
     \/ b = "night_owl" /\ s.start_hour >= 22}

\* C9: the badge rows a log_session adds are exactly the triggered types
\* the user did not hold, one row each; never early_bird and night_owl
\* together, and neither of them for a start hour in 8..21.
BadgesGrantedExactly ==
  [][(last'.op = "log_session" /\ last'.result = "ok") =>
       LET s == sessions'[last'.id]
           u == s.user_id
           granted == {b \in BadgeTypes : badges'[u][b] > badges[u][b]}
           want == {b \in Triggered(SessionCount(sessions', u), users'[u].streak_count, s) :
                      badges[u][b] = 0}
       IN /\ granted = want
          /\ \A b \in BadgeTypes : badges'[u][b] = badges[u][b] + (IF b \in want THEN 1 ELSE 0)
          /\ ~({"early_bird", "night_owl"} \subseteq granted)
          /\ s.start_hour \in 8..21 => granted \cap {"early_bird", "night_owl"} = {}]_vars

\* the 30th day of a streak, logged at 23:00 for 60 minutes
BadgesGrantedExactlyWitness ==
  /\ LoggedOk
  /\ users[1].streak_count = 30
  /\ sessions[last.id].start_hour = 23
  /\ badges[1]["streak_30"] = 1
  /\ badges[1]["night_owl"] = 1
  /\ badges[1]["marathon"] = 1
  /\ badges[1]["early_bird"] = 0

InRange(score) == score[2] > 0 /\ 0 <= score[1] /\ score[1] <= 100 * score[2]

\* C10: calculate_task_readiness is within [0, 100] for every task and
\* every set of linked sessions, and is exactly 0 whenever
\* estimated_minutes <= 0, whatever the practice history.
ReadinessClamped ==
  res # <<>> =>
    /\ InRange(res[1])
    /\ arg.estimated_minutes <= 0 => res[1][1] = 0

\* a task estimated at 0 minutes with 300 minutes and two rated sessions
ReadinessClampedWitness ==
  /\ res = << <<0, 1>> >>
  /\ arg.estimated_minutes = 0
  /\ arg.total_time_practiced = 300
  /\ Len(arg.ratings) = 2
  /\ arg.ratings[1].focus_rating = 5

\* R and N of a task's linked sessions, as the claim defines them
ClaimedR(ratings) ==
  SumOver(DOMAIN ratings,
          [i \in DOMAIN ratings |->
             2 * ((IF ratings[i].focus_rating \in 1..5 THEN ratings[i].focus_rating ELSE 0)
                  + (IF ratings[i].progress_rating \in 1..5 THEN ratings[i].progress_rating ELSE 0)
                  + (IF ratings[i].energy_rating \in 1..5 THEN ratings[i].energy_rating ELSE 0))],
          0)

ClaimedN(ratings) ==
  Cardinality({i \in DOMAIN ratings :
                 \/ ratings[i].focus_rating \in 1..5
                 \/ ratings[i].progress_rating \in 1..5
                 \/ ratings[i].energy_rating \in 1..5})

\* the fraction a / b is the fraction score
SameFraction(score, a, b) == score[1] * b = a * score[2]

LinkedTasks(lnks, sid) ==
  {lnks[i].task_id : i \in LinksOfSession(lnks, sid)} \cap DOMAIN tasks

\* C12: right after log_session, the stored readiness_score of every task
\* the session links is calculate_task_readiness over all the task's links,
\* the one just created included, so the new session's ratings count.
ReadinessAfterLogIncludesNewLink ==
  LoggedOk =>
    \A t \in LinkedTasks(links, last.id) :
      LET fresh == calculate_task_readiness(tasks[t], t, links, sessions)
      IN SameFraction(tasks[t].readiness_score, fresh[1], fresh[2])

\* C13: after update_session_ratings or delete_session has changed a
\* session, the stored readiness_score of every task the session links is
\* calculate_task_readiness of the task's current time and linked ratings.
ReadinessRecomputedOnChange ==
  (last.op \in {"update_session_ratings", "delete_session"} /\ last.result = "ok") =>
    \A t \in LinkedTasks(links, last.id) :
      LET fresh == calculate_task_readiness(tasks[t], t, links, sessions)
      IN SameFraction(tasks[t].readiness_score, fresh[1], fresh[2])

FocusChangeMovesPointsByDelta ==
  [][(/\ last'.op = "update_session_ratings"
      /\ last'.result = "ok"
      /\ sessions'[last'.id].focus_rating # sessions[last'.id].focus_rating) =>
       LET sid == last'.id
           u == sessions[sid].user_id
           new_points == ClaimedPoints(sessions[sid].duration_minutes,
                                       sessions'[sid].focus_rating, users[u].streak_count)
       IN /\ sessions'[sid].points_earned = new_points
          /\ users'[u].total_points =
               users[u].total_points + new_points - sessions[sid].points_earned
          /\ users'[u].level = (users'[u].total_points \div 100) + 1
          /\ users'[u].streak_count = users[u].streak_count]_vars

\* 60 minutes logged without a focus rating at streak 1 earned 60; rated 5
\* at streak 30 they are worth 144, and the 84 more reach level 2
FocusChangeMovesPointsByDeltaWitness ==
  /\ last.op = "update_session_ratings"
  /\ last.result = "ok"
  /\ arg.logged_streak = 1
  /\ users[1].streak_count = 30
  /\ sessions[1].duration_minutes = 60
  /\ sessions[1].focus_rating = 5
  /\ sessions[1].points_earned = 144
  /\ users[1].total_points = 144
  /\ users[1].level = 2

\* C17: streak_count and last_practice_date change only in a log_session,
\* which sets the date to today and the streak to 1 or one more than it
\* was; update_session_ratings and delete_session leave both, also when the
\* deleted session is the only one logged today.
StreakOnlyViaLog ==
  [][\A u \in DOMAIN users :
       /\ (\/ users'[u].streak_count # users[u].streak_count
           \/ users'[u].last_practice_date # users[u].last_practice_date) =>
            /\ last'.op = "log_session"
            /\ last'.result = "ok"
            /\ users'[u].last_practice_date = today
            /\ users'[u].streak_count \in {1, users[u].streak_count + 1}
       /\ last'.op \in {"update_session_ratings", "delete_session"} =>
            /\ users'[u].streak_count = users[u].streak_count
            /\ users'[u].last_practice_date = users[u].last_practice_date]_vars

\* the only session, logged today, has just been deleted: the streak it
\* raised to 3 and today's date stay
StreakOnlyViaLogWitness ==
  /\ last.op = "delete_session"
  /\ last.result = "ok"
  /\ sessions = <<>>
  /\ users[1].total_points = 0
  /\ users[1].streak_count = 3
  /\ users[1].last_practice_date = today

\* C18: no step removes a badge row: every user's badges only grow, and
\* update_session_ratings and delete_session leave them exactly as they
\* were, also when the deleted session is the one that earned the badge.
BadgesNeverRemoved ==
  [][\A u \in DOMAIN badges :
       /\ \A b \in BadgeTypes : badges'[u][b] >= badges[u][b]
       /\ last'.op \in {"update_session_ratings", "delete_session"} =>
            badges'[u] = badges[u]]_vars

\* the session that earned perfect_focus and early_bird has been deleted
BadgesNeverRemovedWitness ==
  /\ last.op = "delete_session"
  /\ last.result = "ok"
  /\ sessions = <<>>
  /\ badges[1]["perfect_focus"] = 1
  /\ badges[1]["early_bird"] = 1
  /\ badges[1]["first_session"] = 1

\* C19: update_streak applied once more, on the same day, to its own
\* result changes neither streak_count nor last_practice_date: a second
\* session of the day does not raise the streak again.
StreakIdempotentWithinDay ==
  res # <<>> =>
    LET again == update_streak(arg.today, res.last_practice_date, res.streak_count)
    IN /\ again.streak_count = res.streak_count
       /\ again.last_practice_date = res.last_practice_date

\* the day's first call has raised a streak of 6 to 7
StreakIdempotentWithinDayWitness ==
  /\ res # <<>>
  /\ arg.last_practice_date = arg.today - 1
  /\ arg.streak_count = 6
  /\ res.streak_count = 7
  /\ res.last_practice_date = arg.today

\* C20: with the other two inputs fixed, calculate_points does not
\* decrease when the duration grows, from 0 minutes on, nor when the
\* streak grows.
PointsMonotone ==
  res # <<>> =>
    /\ calculate_points(0, arg.focus_rating, arg.streak_count) <= res[1]
    /\ res[1] <= calculate_points(arg.duration_minutes + 1, arg.focus_rating,
                                  arg.streak_count)
    /\ res[1] <= calculate_points(arg.duration_minutes, arg.focus_rating,
                                  arg.streak_count + 1)

\* 40 minutes at focus 5 on the last day before the first tier: 48 points,
\* 57 a day later
PointsMonotoneWitness ==
  /\ res = <<48>>
  /\ arg = [duration_minutes |-> 40, focus_rating |-> 5, streak_count |-> 2]
  /\ calculate_points(40, 5, 3) = 57

\* the members of the ensemble the request names
MembersAsked == {u \in DOMAIN users : users[u].ensemble_id = arg.ensemble_id}

\* C21: the leaderboard has one entry per member of the ensemble, members
\* without sessions included with zero minutes and points; the ranks are a
\* permutation of 1..N; a smaller rank never has fewer weekly minutes; and
\* members with equal minutes are ranked in the order the members were
\* read, which is ascending id.
LeaderboardRanksMembers ==
  res # <<>> =>
    LET e == res.entries
        N == Cardinality(MembersAsked)
    IN /\ Len(e) = N
       /\ {e[i].user : i \in DOMAIN e} = MembersAsked
       /\ {e[i].rank : i \in DOMAIN e} = 1..N
       /\ \A i \in DOMAIN e :
            (\A k \in DOMAIN sessions : sessions[k].user_id # e[i].user) =>
              (e[i].weekly_minutes = 0 /\ e[i].weekly_points = 0)
       /\ \A i, j \in DOMAIN e :
            /\ e[i].rank < e[j].rank => e[i].weekly_minutes >= e[j].weekly_minutes
            /\ (e[i].weekly_minutes = e[j].weekly_minutes /\ e[i].user < e[j].user)
                 => e[i].rank < e[j].rank

\* members 2 and 3 tie at 30 minutes ahead of member 1, who has none
LeaderboardRanksMembersWitness ==
  /\ res # <<>>
  /\ Len(res.entries) = 3
  /\ res.entries[1] = [rank |-> 1, user |-> 2, weekly_minutes |-> 30, weekly_points |-> 36]
  /\ res.entries[2] = [rank |-> 2, user |-> 3, weekly_minutes |-> 30, weekly_points |-> 36]
  /\ res.entries[3] = [rank |-> 3, user |-> 1, weekly_minutes |-> 0, weekly_points |-> 0]

\* the Monday of the week that contains the day
MondayOf(day) == CHOOSE m \in (day - 6)..day : m % 7 = 0

\* a member's sessions that start on a date from that Monday to the Sunday
ClaimedWeek(u) ==
  {k \in DOMAIN sessions :
     /\ sessions[k].user_id = u
     /\ sessions[k].start_time \div 24 >= MondayOf(today)
     /\ sessions[k].start_time \div 24 <= MondayOf(today) + 6}

\* C22: a member's weekly_minutes and weekly_points are the sums of
\* duration_minutes and points_earned over the member's sessions whose
\* start date lies from Monday to Sunday of the week containing today, at
\* whatever hour; sessions dated outside that week add nothing.
LeaderboardSumsWeek ==
  res # <<>> =>
    /\ res.period_start = MondayOf(today)
    /\ res.period_end = MondayOf(today) + 6
    /\ \A i \in DOMAIN res.entries :
         LET rows == ClaimedWeek(res.entries[i].user)
         IN /\ res.entries[i].weekly_minutes =
                 SumOver(rows, [k \in rows |-> sessions[k].duration_minutes], 0)
            /\ res.entries[i].weekly_points =
                 SumOver(rows, [k \in rows |-> sessions[k].points_earned], 0)

\* on the Sunday, member 1 has 45 minutes from Sunday 23:00, and the 30
\* minutes dated Monday 00:00 of the next week are left out
LeaderboardSumsWeekWitness ==
  /\ res # <<>>
  /\ today = 13
  /\ Len(sessions) = 2
  /\ sessions[1].user_id = 1 /\ sessions[1].start_time = 13 * 24 + 23
  /\ sessions[1].duration_minutes = 45
  /\ sessions[2].user_id = 1 /\ sessions[2].start_time = 14 * 24
  /\ sessions[2].duration_minutes = 30
  /\ res.entries[1] = [rank |-> 1, user |-> 1, weekly_minutes |-> 45, weekly_points |-> 54]

\* C23: an update_session_ratings that leaves the focus rating as it was
\* (it sets other fields, or sets focus to its current value) leaves the
\* session's points_earned and the user's total_points and level, also
\* when the user's streak has changed since the session was logged.
SameFocusKeepsPoints ==
  [][(/\ last'.op = "update_session_ratings"
      /\ last'.result = "ok"
      /\ sessions'[last'.id].focus_rating = sessions[last'.id].focus_rating) =>
       LET sid == last'.id
           u == sessions[sid].user_id
       IN /\ sessions'[sid].points_earned = sessions[sid].points_earned
          /\ users'[u].total_points = users[u].total_points
          /\ users'[u].level = users[u].level]_vars

\* 40 minutes logged with focus 5 at streak 1 keep their 48 points when
\* focus 5 is sent again at streak 30
SameFocusKeepsPointsWitness ==
  /\ last.op = "update_session_ratings"
  /\ last.result = "ok"
  /\ arg.logged_streak = 1
  /\ users[1].streak_count = 30
  /\ sessions[1].duration_minutes = 40
  /\ sessions[1].focus_rating = 5
  /\ sessions[1].progress_rating = 5
  /\ sessions[1].points_earned = 48
  /\ users[1].total_points = 48

\* C24: log_session commits in three writes, in this order: the user's
\* streak, points and level with the session row; the links and task
\* statistics; the badge rows.  A crash between them leaves what was
\* committed: the session stored and its points awarded, with the task
\* statistics or the badges of the request still missing.
CrashLeavesPartialState ==
  [][\A p \in Requests :
       (arg[p].pc \in {"links", "badges", "grant"} /\ arg'[p].pc = "crashed") =>
         LET r == arg[p]
         IN /\ r.sid \in DOMAIN sessions'
            /\ users'[r.uid].total_points =
                 r.user.total_points + sessions'[r.sid].points_earned
            /\ users'[r.uid].last_practice_date = today
            /\ r.pc = "links" =>
                 /\ LinksOfSession(links', r.sid) = {}
                 /\ \A t \in DOMAIN tasks : tasks'[t].practice_count = 0
            /\ r.pc \in {"badges", "grant"} =>
                 Len(r.task_list) = Cardinality(LinksOfSession(links', r.sid))
            /\ badges'[r.uid] = InitialBadges(r.user.streak_count)]_vars

\* the request reached streak 3 with 57 points and linked a task; it died
\* after the first commit: the session and the points are stored, the task
\* has no practice and the streak_3 and perfect_focus badges were never
\* granted
CrashLeavesPartialStateWitness ==
  /\ arg[1].pc = "crashed"
  /\ 1 \in DOMAIN sessions
  /\ sessions[1].points_earned = 57
  /\ users[1].total_points = 57
  /\ users[1].streak_count = 3
  /\ Len(arg[1].task_list) = 1
  /\ arg[1].task_list[1].task_id = 1
  /\ links = <<>>
  /\ tasks[1].practice_count = 0
  /\ badges[1]["streak_3"] = 0
  /\ badges[1]["perfect_focus"] = 0

\* C25: when a log_session writes the user row after another request has
\* written it since this one read it, the write starts from the stale
\* copy: total_points becomes the stale total plus this session's points
\* and not the stored total plus these points, so what the other request
\* wrote is lost; and a badge both requests found missing gets two rows.
RaceLosesUpdate ==
  [][\A p \in Requests :
       /\ (/\ arg[p].pc = "read"
           /\ arg'[p].pc = "links"
           /\ users[arg[p].uid].total_points # arg[p].user.total_points) =>
            LET r == arg[p]
                points == sessions'[arg'[p].sid].points_earned
            IN /\ users'[r.uid].total_points = r.user.total_points + points
               /\ users'[r.uid].total_points # users[r.uid].total_points + points
       /\ (arg[p].pc = "grant" /\ arg'[p].pc = "done") =>
            \A b \in arg[p].new_badges :
              badges'[arg[p].uid][b] = badges[arg[p].uid][b] + 1]_vars

\* two requests of 40 minutes at focus 5 for a new user have both finished:
\* each earned 48 points, the total is 48, and perfect_focus has two rows
RaceLosesUpdateWitness ==
  /\ arg[1].pc = "done"
  /\ arg[2].pc = "done"
  /\ DOMAIN sessions = {1, 2}
  /\ sessions[1].points_earned = 48
  /\ sessions[2].points_earned = 48
  /\ users[1].total_points = 48
  /\ users[1].streak_count = 1
  /\ badges[1]["perfect_focus"] = 2

\* C26: get_weekly_leaderboard changes nothing: no user's streak_count,
\* total_points or level, no badge, no session, no link and no task.
LeaderboardReadOnly ==
  [][(res = <<>> /\ res' # <<>>) => UNCHANGED <<today, dbvars>>]_vars

\* the leaderboard was computed for a member whose total of 90 points
\* comes from a session in the week (36) and one before it (54)
LeaderboardReadOnlyWitness ==
  /\ res # <<>>
  /\ arg.ensemble_id = 1
  /\ Len(sessions) = 2
  /\ users[1].total_points = 90
  /\ users[1].streak_count = 1
  /\ badges[1]["perfect_focus"] = 1
  /\ res.entries[1].user = 1
  /\ res.entries[1].weekly_points = 36

\* the points_earned of the sessions a user has
PointsOfSessions(u) ==
  LET rows == {k \in DOMAIN sessions : sessions[k].user_id = u}
  IN SumOver(rows, [k \in rows |-> sessions[k].points_earned], 0)

LiveLinks(t) == {i \in LinksOfTask(links, t) : links[i].session_id \in DOMAIN sessions}

LastDateIffStreak ==
  /\ \A u \in DOMAIN users :
       (users[u].last_practice_date # NoDate) <=> (users[u].streak_count >= 1)
  /\ LoggedOk =>
       LET u == sessions[last.id].user_id
       IN /\ users[u].last_practice_date = today
          /\ users[u].streak_count >= 1

\* a streak of 2 that ended on day 1 is broken by the first session on day 3
LastDateIffStreakWitness ==
  /\ LoggedOk
  /\ today = 3
  /\ users[1].last_practice_date = 3
  /\ users[1].streak_count = 1
  /\ badges[1]["first_session"] = 1
  /\ badges[1]["streak_3"] = 0
  /\ sessions[last.id].start_hour = 23

\* C30: between operations, a user whose streak_count is at least 3, 7 or
\* 30 holds streak_3, streak_7 or streak_30; and who holds streak_30 holds
\* streak_7, who holds streak_7 holds streak_3.
StreakBadgesHeld ==
  \A u \in DOMAIN users :
    /\ users[u].streak_count >= 3 => badges[u]["streak_3"] >= 1
    /\ users[u].streak_count >= 7 => badges[u]["streak_7"] >= 1
    /\ users[u].streak_count >= 30 => badges[u]["streak_30"] >= 1
    /\ badges[u]["streak_30"] >= 1 => badges[u]["streak_7"] >= 1
    /\ badges[u]["streak_7"] >= 1 => badges[u]["streak_3"] >= 1

\* the seventh day of a streak has just been logged
StreakBadgesHeldWitness ==
  /\ LoggedOk
  /\ today = 2
  /\ users[1].streak_count = 7
  /\ badges[1]["streak_3"] = 1
  /\ badges[1]["streak_7"] = 1
  /\ badges[1]["streak_30"] = 0

====
